---- MODULE Spec2Model ----
(***************************************************************************)
(* eGRF.py: the CKD-EPI estimator calculate_egfr and the stage chart       *)
(* renderer plot_kidney_disease_stages_with_correct_format, which draws on *)
(* pyplot's implicit current figure.                                       *)
(*                                                                         *)
(* Representation.  A Python str is a sequence of one-character strings.   *)
(* A decimal literal or decimal input (creatinine, k, alpha, race_factor,  *)
(* the renderer's egfr) is an integer number of thousandths.  A float that *)
(* the estimator computes is a record [kind, lg]: its kind (zero, pos,     *)
(* neg, inf, or complex) and the base-2 logarithm of its magnitude in units*)
(* of 1/LgUnit bit, so that * is an addition, ** a scaling, and the range  *)
(* of a double (overflow, underflow) is a comparison of lg.                *)
(***************************************************************************)
EXTENDS Integers, Sequences, FiniteSets, TLC

VARIABLES figs, displayed, last, calls

vars == <<figs, displayed, last, calls>>

(* ------------------------------ bounds -------------------------------- *)

\* Calls made in one process under Spec.
MaxCalls == 2

(* ------------------------------ str.lower ----------------------------- *)

UpperLetters ==
  <<"A","B","C","D","E","F","G","H","I","J","K","L","M",
    "N","O","P","Q","R","S","T","U","V","W","X","Y","Z">>

LowerLetters ==
  <<"a","b","c","d","e","f","g","h","i","j","k","l","m",
    "n","o","p","q","r","s","t","u","v","w","x","y","z">>

LowerChar(c) ==
  IF \E i \in 1..Len(UpperLetters) : UpperLetters[i] = c
  THEN LowerLetters[CHOOSE i \in 1..Len(UpperLetters) : UpperLetters[i] = c]
  ELSE c

\* s.lower()
Lower(s) == [i \in 1..Len(s) |-> LowerChar(s[i])]

\* The literals the code compares against.
StrMale == <<"m","a","l","e">>
StrFemale == <<"f","e","m","a","l","e">>
StrAfricanAmerican ==
  <<"a","f","r","i","c","a","n","-","a","m","e","r","i","c","a","n">>
StrNonAfricanAmerican == <<"n","o","n","-">> \o StrAfricanAmerican

(* ------------------------------ floats -------------------------------- *)

\* lg is kept in units of 1/LgUnit bit.
LgUnit == 100000

\* A double overflows at 2^1024 and underflows to 0.0 below 2^-1074.
DblMaxExp == 1024
DblMinExp == -1074

\* round(log2(n/1000) * LgUnit) for the decimals the model uses.
Log2Milli(n) ==
  CASE n = 1      -> -996578
    [] n = 500    -> -100000
    [] n = 700    -> -51457
    [] n = 701    -> -51251
    [] n = 900    -> -15200
    [] n = 901    -> -15040
    [] n = 993    -> -1013
    [] n = 1000   -> 0
    [] n = 1159   -> 21288
    [] n = 1450   -> 53605
    [] n = 20000  -> 432193
    [] n = 141000 -> 713955
    [] n = 144000 -> 716993

FZero == [kind |-> "zero", lg |-> 0]
FInf == [kind |-> "inf", lg |-> 0]

\* The float of a decimal given in thousandths.
FromMilli(n) ==
  IF n = 0 THEN FZero
  ELSE IF n > 0 THEN [kind |-> "pos", lg |-> Log2Milli(n)]
  ELSE [kind |-> "neg", lg |-> Log2Milli(-n)]

\* A real magnitude 2^(lg/LgUnit) of sign `kind`, as the double holding it.
InRange(kind, lg) ==
  IF lg >= DblMaxExp * LgUnit THEN FInf
  ELSE IF lg < DblMinExp * LgUnit THEN FZero
  ELSE [kind |-> kind, lg |-> lg]

\* a / b for a nonzero finite b (k is 0.9 or 0.7): never raises.
FDiv(a, b) ==
  IF a.kind = "zero" THEN FZero
  ELSE InRange(IF a.kind = b.kind THEN "pos" ELSE "neg", a.lg - b.lg)

\* a * b.  Float multiplication never raises: it overflows to inf and
\* underflows to 0.0.  A complex operand gives a complex product (czero is
\* the complex 0j, cinf a complex with an infinite part).
FMul(a, b) ==
  IF a.kind \in {"complex", "czero", "cinf"} \/ b.kind \in {"complex", "czero", "cinf"}
  THEN IF a.kind \in {"zero", "czero"} \/ b.kind \in {"zero", "czero"}
       THEN [kind |-> "czero", lg |-> 0]
       ELSE IF a.kind \in {"inf", "cinf"} \/ b.kind \in {"inf", "cinf"}
                 \/ a.lg + b.lg >= DblMaxExp * LgUnit
       THEN [kind |-> "cinf", lg |-> 0]
       ELSE IF a.lg + b.lg < DblMinExp * LgUnit
       THEN [kind |-> "czero", lg |-> 0]
       ELSE [kind |-> "complex", lg |-> a.lg + b.lg]
  ELSE IF a.kind = "zero" \/ b.kind = "zero" THEN FZero
  ELSE IF a.kind = "inf" \/ b.kind = "inf" THEN FInf
  ELSE InRange(IF a.kind = b.kind THEN "pos" ELSE "neg", a.lg + b.lg)

\* a ** (num/den), as float.__pow__ does it: 0.0 to a negative power raises
\* ZeroDivisionError, a negative base to a non-integer power is complex, a
\* result past the double range raises OverflowError, one below it is 0.0.
FPow(a, num, den) ==
  IF num = 0 THEN [status |-> "ok", v |-> [kind |-> "pos", lg |-> 0]]
  ELSE IF a.kind = "zero"
       THEN IF num < 0 THEN [status |-> "ZeroDivisionError", v |-> FZero]
            ELSE [status |-> "ok", v |-> FZero]
  ELSE LET lg == (a.lg * num) \div den IN
       IF a.kind = "neg" /\ num % den # 0
       THEN [status |-> "ok", v |-> [kind |-> "complex", lg |-> lg]]
       ELSE IF lg >= DblMaxExp * LgUnit
            THEN [status |-> "OverflowError", v |-> FInf]
       ELSE [status |-> "ok",
             v |-> InRange(IF a.kind = "neg" /\ (num \div den) % 2 = 1
                           THEN "neg" ELSE "pos", lg)]

\* '{x:.2f}' of a decimal x given in thousandths: the nearest hundredth.
Fmt2(x) == (x + 5) \div 10

\* '{x:.3f}' of a decimal x given in thousandths: all three places print.
Fmt3(x) == x

(* ------------------------------ calculate_egfr ------------------------ *)

\* No value: the call raised.
NoValue == [kind |-> "none", lg |-> 0]

\* k, alpha and coeff are unbound when the sex branch raises.
Unbound == [bound |-> FALSE, k |-> 0, alpha |-> 0, coeff |-> 0, race_factor |-> 0]

SexMessage == "Sex must be 'male' or 'female'."

\* Mutant of egfr_sex_constants: the thresholds compared with < for <=.
egfr_sex_constants_strict(creatinine, sex) ==
  IF Lower(sex) = StrMale
  THEN [raised |-> FALSE, k |-> 900,
        alpha |-> IF creatinine < 900 THEN -411 ELSE -1209, coeff |-> 141]
  ELSE IF Lower(sex) = StrFemale
  THEN [raised |-> FALSE, k |-> 700,
        alpha |-> IF creatinine < 700 THEN -329 ELSE -1209, coeff |-> 144]
  ELSE [raised |-> TRUE, k |-> 0, alpha |-> 0, coeff |-> 0]

\* Lines 13-22: k, alpha and coeff from sex and creatinine, or ValueError.
egfr_sex_constants(creatinine, sex) ==
  IF Lower(sex) = StrMale
  THEN [raised |-> FALSE, k |-> 900,
        alpha |-> IF creatinine <= 900 THEN -411 ELSE -1209, coeff |-> 141]
  ELSE IF Lower(sex) = StrFemale
  THEN [raised |-> FALSE, k |-> 700,
        alpha |-> IF creatinine <= 700 THEN -329 ELSE -1209, coeff |-> 144]
  ELSE [raised |-> TRUE, k |-> 0, alpha |-> 0, coeff |-> 0]

\* Mutant of egfr_race_factor: every race but the default gets 1.159.
egfr_race_factor_unless_default(race) ==
  IF Lower(race) = StrNonAfricanAmerican THEN 1000 ELSE 1159

\* Line 24.
egfr_race_factor(race) ==
  IF Lower(race) = StrAfricanAmerican THEN 1159 ELSE 1000

\* Mutant of egfr_formula: race_factor left out of the product.
egfr_formula_no_race(coeff, creatinine, k, alpha, age, race_factor) ==
  LET p1 == FPow(FDiv(FromMilli(creatinine), FromMilli(k)), alpha, 1000)
      p2 == FPow(FromMilli(993), age, 1)
  IN  IF p1.status # "ok" THEN [status |-> p1.status, v |-> NoValue]
      ELSE IF p2.status # "ok" THEN [status |-> p2.status, v |-> NoValue]
      ELSE [status |-> "ok", v |-> FMul(FMul(FromMilli(coeff * 1000), p1.v), p2.v)]

\* Mutant of egfr_formula: the age exponent negated, 0.993 ** -age.
egfr_formula_neg_age(coeff, creatinine, k, alpha, age, race_factor) ==
  LET p1 == FPow(FDiv(FromMilli(creatinine), FromMilli(k)), alpha, 1000)
      p2 == FPow(FromMilli(993), -age, 1)
  IN  IF p1.status # "ok" THEN [status |-> p1.status, v |-> NoValue]
      ELSE IF p2.status # "ok" THEN [status |-> p2.status, v |-> NoValue]
      ELSE [status |-> "ok",
            v |-> FMul(FMul(FMul(FromMilli(coeff * 1000), p1.v), p2.v),
                       FromMilli(race_factor))]

\* Line 26: coeff * (creatinine / k) ** alpha * (0.993 ** age) * race_factor,
\* evaluated left to right; the first power that raises ends the call.
egfr_formula(coeff, creatinine, k, alpha, age, race_factor) ==
  LET p1 == FPow(FDiv(FromMilli(creatinine), FromMilli(k)), alpha, 1000)
      p2 == FPow(FromMilli(993), age, 1)
  IN  IF p1.status # "ok" THEN [status |-> p1.status, v |-> NoValue]
      ELSE IF p2.status # "ok" THEN [status |-> p2.status, v |-> NoValue]
      ELSE [status |-> "ok",
            v |-> FMul(FMul(FMul(FromMilli(coeff * 1000), p1.v), p2.v),
                       FromMilli(race_factor))]

\* The whole call: how it ends, what it returns, and its locals at that point.
calculate_egfr(creatinine, age, sex, race) ==
  LET c == egfr_sex_constants(creatinine, sex) IN
  IF c.raised
  THEN [status |-> "ValueError", message |-> SexMessage, value |-> NoValue,
        locals |-> Unbound]
  ELSE LET race_factor == egfr_race_factor(race)
           egfr == egfr_formula(c.coeff, creatinine, c.k, c.alpha, age, race_factor)
       IN  [status |-> egfr.status, message |-> "", value |-> egfr.v,
            locals |-> [bound |-> TRUE, k |-> c.k, alpha |-> c.alpha,
                        coeff |-> c.coeff, race_factor |-> race_factor]]

(* ------------------- plot_kidney_disease_stages_with_correct_format --- *)

stages ==
  << "Stage 5: Kidney Failure",
     "Stage 4: Severe Reduction",
     "Stage 3b: Moderate-to-Severe Reduction",
     "Stage 3a: Mild-to-Moderate Reduction",
     "Stage 2: Mild Reduction",
     "Stage 1: Normal or High Function" >>

thresholds == <<0, 15, 30, 45, 60, 90, 120>>

colors == <<"darkred", "red", "orange", "yellow", "lime", "green">>

\* A figure pyplot has just created: nothing drawn on it.
EmptyFigure ==
  [bars |-> <<>>, vlines |-> <<>>, texts |-> <<>>, figtexts |-> <<>>,
   title |-> "", xlabel |-> "", ylabel |-> "", legend |-> <<>>,
   grid |-> FALSE, tight |-> FALSE]

\* pyplot's current figure: the open one, or a new one when none is open.
gcf(open) == IF open = <<>> THEN EmptyFigure ELSE open[Len(open)]

\* Mutant of draw_bars: the upper threshold passed as the width.
draw_bars_upper_as_width(f) ==
  [f EXCEPT !.bars = @ \o
     [i \in 1..(Len(thresholds) - 1) |->
        [y |-> stages[i], width |-> thresholds[i + 1],
         left |-> thresholds[i], color |-> colors[i],
         edgecolor |-> "black", alpha |-> 700]]]

\* Lines 52-60: one plt.barh per pair of neighbouring thresholds.
draw_bars(f) ==
  [f EXCEPT !.bars = @ \o
     [i \in 1..(Len(thresholds) - 1) |->
        [y |-> stages[i], width |-> thresholds[i + 1] - thresholds[i],
         left |-> thresholds[i], color |-> colors[i],
         edgecolor |-> "black", alpha |-> 700]]]

\* Line 63: plt.axvline.
draw_marker(f, egfr) ==
  [f EXCEPT !.vlines = Append(@, [x |-> egfr, color |-> "blue",
                                  linestyle |-> "--", label |-> Fmt2(egfr)])]

\* Lines 66-69: plt.text.
draw_annotation(f, egfr) ==
  [f EXCEPT !.texts = Append(@, [x |-> egfr + 1000, y |-> Len(stages) - 1,
                                 s |-> Fmt2(egfr), color |-> "blue"])]

\* Mutant of plot_sex_constants: any sex but male taken as female.
plot_sex_constants_else_female(creatinine, sex) ==
  IF Lower(sex) = StrMale
  THEN [raised |-> FALSE, k |-> 900, coeff |-> 141,
        alpha |-> IF creatinine <= 900 THEN -411 ELSE -1209]
  ELSE [raised |-> FALSE, k |-> 700, coeff |-> 144,
        alpha |-> IF creatinine <= 700 THEN -329 ELSE -1209]

\* Lines 72-81.
plot_sex_constants(creatinine, sex) ==
  IF Lower(sex) = StrMale
  THEN [raised |-> FALSE, k |-> 900, coeff |-> 141,
        alpha |-> IF creatinine <= 900 THEN -411 ELSE -1209]
  ELSE IF Lower(sex) = StrFemale
  THEN [raised |-> FALSE, k |-> 700, coeff |-> 144,
        alpha |-> IF creatinine <= 700 THEN -329 ELSE -1209]
  ELSE [raised |-> TRUE, k |-> 0, coeff |-> 0, alpha |-> 0]

\* Mutant of plot_race_factor: race compared without lower().
plot_race_factor_cased(race) ==
  IF race = StrAfricanAmerican THEN 1159 ELSE 1000

\* Line 83.
plot_race_factor(race) ==
  IF Lower(race) = StrAfricanAmerican THEN 1159 ELSE 1000

\* Lines 85-101: the two text blocks, by the values formatted into them.
draw_figtexts(f, c, race_factor, creatinine, age, sex) ==
  [f EXCEPT !.figtexts = @ \o
     << [what |-> "formula", x |-> 500, y |-> 1, coeff |-> c.coeff,
         creatinine |-> Fmt2(creatinine), k |-> Fmt2(c.k),
         alpha |-> Fmt3(c.alpha), age |-> age,
         race_factor |-> Fmt3(race_factor), sex |-> <<>>],
        [what |-> "constants_info", x |-> 20, y |-> 0, coeff |-> c.coeff,
         creatinine |-> Fmt2(creatinine), k |-> Fmt2(c.k),
         alpha |-> Fmt3(c.alpha), age |-> age,
         race_factor |-> Fmt3(race_factor), sex |-> sex] >>]

\* Lines 104-109: title, axis labels, the legend of the labelled lines, grid.
draw_details(f) ==
  [f EXCEPT !.title = "Kidney Disease Stages Based on eGFR",
            !.xlabel = "eGFR (mL/min/1.73m2)",
            !.ylabel = "Kidney Disease Stages",
            !.legend = [i \in 1..Len(f.vlines) |-> f.vlines[i].label],
            !.grid = TRUE,
            !.tight = TRUE]

\* The whole call on the current figure f, up to plt.show(): how it ends, the
\* figure as it leaves it, and its locals at that point.
plot_kidney_disease_stages_with_correct_format(f, egfr, creatinine, age, sex, race) ==
  LET drawn == draw_annotation(draw_marker(draw_bars(f), egfr), egfr)
      c == plot_sex_constants(creatinine, sex)
  IN  IF c.raised
      THEN [status |-> "ValueError", message |-> SexMessage, figure |-> drawn,
            locals |-> Unbound]
      ELSE LET race_factor == plot_race_factor(race) IN
           [status |-> "ok", message |-> "",
            figure |-> draw_details(
                         draw_figtexts(drawn, c, race_factor, creatinine, age, sex)),
            locals |-> [bound |-> TRUE, k |-> c.k, alpha |-> c.alpha,
                        coeff |-> c.coeff, race_factor |-> race_factor]]

(* ------------------------------ inputs -------------------------------- *)

StrOther == <<"o","t","h","e","r">>
StrUnknown == <<"a","s","i","a","n">>

\* Sex strings: spellings of male and of female, and strings that are neither.
SexInputs ==
  { StrMale, <<"M","A","L","E">>, <<"M","a","l","e">>,
    StrFemale, <<"F","E","M","A","L","E">>, <<"F","e","M","a","l","e">>,
    StrOther, <<"m","a","l","e","s">>, <<>> }

\* Race strings: spellings of african-american, the default, unrecognized ones.
RaceInputs ==
  { StrAfricanAmerican,
    <<"A","F","R","I","C","A","N","-","A","M","E","R","I","C","A","N">>,
    <<"A","f","r","i","c","a","n","-","A","m","e","r","i","c","a","n">>,
    StrNonAfricanAmerican, StrUnknown, <<>> }

\* Creatinine in thousandths of mg/dL: negative, zero, tiny, around both k, large.
CreatinineInputs == {-1000, 0, 1, 500, 700, 701, 900, 901, 1450, 20000}

\* Age in years: negative, zero, ordinary, and far outside any lifetime.
AgeInputs == {-200000, -1, 0, 45, 120, 200000}

\* The renderer's egfr in thousandths of mL/min/1.73m2.
EgfrInputs == {-3204, 57746, 130001}

\* The inputs of the calls of a sequence of calls.
SeqSexInputs == {StrMale, <<"F","e","M","a","l","e">>, StrOther}
SeqRaceInputs == {<<"A","f","r","i","c","a","n","-","A","m","e","r","i","c","a","n">>,
                  StrUnknown}
SeqCreatinineInputs == {900, 1450}
SeqAgeInputs == {45}
SeqEgfrInputs == {8200, 57746}

(* ------------------------------ the process --------------------------- *)

NoArgs == [egfr |-> 0, creatinine |-> 0, age |-> 0, sex |-> <<>>, race |-> <<>>]

\* A fresh interpreter: pyplot has no open figure, nothing has been shown,
\* nothing has been called.
Init ==
  /\ figs = <<>>
  /\ displayed = <<>>
  /\ last = [fn |-> "none", args |-> NoArgs, status |-> "none", message |-> "",
             value |-> NoValue, locals |-> Unbound]
  /\ calls = 0

\* A call of calculate_egfr: it touches no figure.
CallCalculate(creatinine, age, sex, race) ==
  /\ calls < MaxCalls
  /\ LET r == calculate_egfr(creatinine, age, sex, race) IN
     last' = [fn |-> "calculate_egfr",
              args |-> [egfr |-> 0, creatinine |-> creatinine, age |-> age,
                        sex |-> sex, race |-> race],
              status |-> r.status, message |-> r.message, value |-> r.value,
              locals |-> r.locals]
  /\ calls' = calls + 1
  /\ UNCHANGED <<figs, displayed>>

\* A call of the renderer.  It draws on pyplot's current figure.  When it
\* raises, plt.show() is not reached and the figure stays open as drawn.  When
\* it reaches plt.show() the figure is displayed; a backend that blocks until
\* the window is closed, or an inline one, then destroys the figure (closes),
\* and a non-interactive one keeps it open as the current figure.
CallPlot(egfr, creatinine, age, sex, race, closes) ==
  /\ calls < MaxCalls
  /\ LET r == plot_kidney_disease_stages_with_correct_format(
                gcf(figs), egfr, creatinine, age, sex, race)
     IN  /\ last' = [fn |-> "plot",
                     args |-> [egfr |-> egfr, creatinine |-> creatinine,
                               age |-> age, sex |-> sex, race |-> race],
                     status |-> r.status, message |-> r.message,
                     value |-> NoValue, locals |-> r.locals]
         /\ IF r.status = "ok"
            THEN /\ displayed' = <<r.figure>>
                 /\ figs' = IF closes THEN <<>> ELSE <<r.figure>>
            ELSE /\ displayed' = displayed
                 /\ figs' = <<r.figure>>
  /\ calls' = calls + 1

\* Any sequence of at most MaxCalls calls.
NextCalculate ==
  \E c \in SeqCreatinineInputs, a \in SeqAgeInputs, s \in SeqSexInputs,
     r \in SeqRaceInputs : CallCalculate(c, a, s, r)

NextPlot ==
  \E e \in SeqEgfrInputs, c \in SeqCreatinineInputs, a \in SeqAgeInputs,
     s \in SeqSexInputs, r \in SeqRaceInputs, closes \in BOOLEAN :
       CallPlot(e, c, a, s, r, closes)

Next == NextCalculate \/ NextPlot

Spec == Init /\ [][Next]_vars

\* One call on a fresh interpreter, over the wide inputs.
FirstCalculate ==
  /\ calls = 0
  /\ \E c \in CreatinineInputs, a \in AgeInputs, s \in SexInputs,
        r \in RaceInputs : CallCalculate(c, a, s, r)

FirstPlot ==
  /\ calls = 0
  /\ \E e \in EgfrInputs, c \in CreatinineInputs, a \in AgeInputs,
        s \in SexInputs, r \in RaceInputs, closes \in BOOLEAN :
          CallPlot(e, c, a, s, r, closes)

NextCall == FirstCalculate \/ FirstPlot

SpecCall == Init /\ [][NextCall]_vars

(* ------------------------------ properties ---------------------------- *)

MaleSpellings == {StrMale, <<"M","A","L","E">>, <<"M","a","l","e">>}
FemaleSpellings ==
  {StrFemale, <<"F","E","M","A","L","E">>, <<"F","e","M","a","l","e">>}
AfricanAmericanSpellings ==
  { StrAfricanAmerican,
    <<"A","F","R","I","C","A","N","-","A","M","E","R","I","C","A","N">>,
    <<"A","f","r","i","c","a","n","-","A","m","e","r","i","c","a","n">> }

\* How a call of calculate_egfr ends and what it returns.
Result(r) == [status |-> r.status, value |-> r.value]

\* C1: a sex that is, lower-cased, neither "male" nor "female" ends the call
\* in ValueError "Sex must be 'male' or 'female'.", whatever creatinine, age
\* and race are, in calculate_egfr and in the renderer alike: nothing is
\* returned and the renderer displays nothing.
C1_InvalidSexRaises ==
  (last.fn # "none" /\ Lower(last.args.sex) \notin {StrMale, StrFemale}) =>
    /\ last.status = "ValueError"
    /\ last.message = SexMessage
    /\ last.value = NoValue
    /\ displayed = <<>>

C1_Witness ==
  /\ last.fn = "plot"
  /\ last.args.sex = <<"m","a","l","e","s">>
  /\ last.args.creatinine = 0
  /\ last.status = "ValueError"

\* C2: calculate_egfr takes k=0.9, coeff=141 for every spelling of male and
\* k=0.7, coeff=144 for every spelling of female; alpha is -0.411 (male) or
\* -0.329 (female) when creatinine <= k, a creatinine equal to k included,
\* and -1.209 above k; two spellings of one sex give the same result.
C2_SexConstants ==
  last.fn = "calculate_egfr" =>
    LET a == last.args
        l == last.locals
    IN  /\ a.sex \in MaleSpellings =>
             /\ l.bound /\ l.k = 900 /\ l.coeff = 141
             /\ l.alpha = (IF a.creatinine <= 900 THEN -411 ELSE -1209)
             /\ a.creatinine = 900 => l.alpha = -411
             /\ a.creatinine = 901 => l.alpha = -1209
             /\ Result(last) =
                  Result(calculate_egfr(a.creatinine, a.age, StrMale, a.race))
        /\ a.sex \in FemaleSpellings =>
             /\ l.bound /\ l.k = 700 /\ l.coeff = 144
             /\ l.alpha = (IF a.creatinine <= 700 THEN -329 ELSE -1209)
             /\ a.creatinine = 700 => l.alpha = -329
             /\ a.creatinine = 701 => l.alpha = -1209
             /\ Result(last) =
                  Result(calculate_egfr(a.creatinine, a.age, StrFemale, a.race))

C2_Witness ==
  /\ last.fn = "calculate_egfr"
  /\ last.args.sex = <<"M","A","L","E">>
  /\ last.args.creatinine = 900
  /\ last.status = "ok"
  /\ last.locals.alpha = -411

\* C3: with a valid sex calculate_egfr raises nothing, whatever creatinine
\* (zero and negative included), age (negative included) and race are: it
\* returns a number.
C3_ValidSexNeverRaises ==
  (last.fn = "calculate_egfr" /\ Lower(last.args.sex) \in {StrMale, StrFemale}) =>
    /\ last.status = "ok"
    /\ last.value # NoValue

\* C4: every renderer call with a valid sex completes and displays a figure
\* with exactly 6 bands and exactly one vertical marker, at x = egfr,
\* whatever calls came before it in the process.
C4_SixBandsOneMarker ==
  (last.fn = "plot" /\ Lower(last.args.sex) \in {StrMale, StrFemale}) =>
    /\ last.status = "ok"
    /\ Len(displayed[1].bars) = 6
    /\ Len(displayed[1].vlines) = 1
    /\ displayed[1].vlines[1].x = last.args.egfr

\* C5: a renderer call that ends in the invalid-sex error has drawn nothing:
\* the bands, markers and annotation texts of the drawing surface are after
\* the call what they were before it.
C5_FailedCallDrawsNothing ==
  [][ (last'.fn = "plot" /\ last'.status = "ValueError" /\ calls' = calls + 1) =>
        /\ gcf(figs').bars = gcf(figs).bars
        /\ gcf(figs').vlines = gcf(figs).vlines
        /\ gcf(figs').texts = gcf(figs).texts ]_vars

\* C6: for one (sex, creatinine, race) the renderer derives the k, coeff,
\* alpha and race_factor that calculate_egfr derives, and a sex that makes one
\* raise ValueError makes the other raise the same ValueError.
C6_SameConstants ==
  LET a == last.args IN
  /\ last.fn = "calculate_egfr" =>
       LET p == plot_sex_constants(a.creatinine, a.sex) IN
       IF p.raised
       THEN last.status = "ValueError" /\ last.message = SexMessage
       ELSE last.locals = [bound |-> TRUE, k |-> p.k, alpha |-> p.alpha,
                           coeff |-> p.coeff,
                           race_factor |-> plot_race_factor(a.race)]
  /\ last.fn = "plot" =>
       LET e == calculate_egfr(a.creatinine, a.age, a.sex, a.race) IN
       IF e.status = "ValueError"
       THEN last.status = "ValueError" /\ last.message = e.message
       ELSE last.status = "ok" /\ last.locals = e.locals

C6_Witness ==
  /\ last.fn = "plot"
  /\ last.status = "ok"
  /\ last.args.sex = <<"F","e","M","a","l","e">>
  /\ last.args.creatinine = 700
  /\ last.args.race = <<"A","f","r","i","c","a","n","-","A","m","e","r","i","c","a","n">>
  /\ last.locals = [bound |-> TRUE, k |-> 700, alpha |-> -329, coeff |-> 144,
                    race_factor |-> 1159]

\* C7: every renderer call, whatever was called before it, draws exactly 6
\* bands from 6 labels, 6 colours and 7 bounds: the first starts at 0, each
\* ends where the next starts, every band has a positive width, the last
\* ends at 120, and labels and colours come in the fixed order
\* Stage 5 .. Stage 1, darkred .. green.
C7_BandTable ==
  [][ (last'.fn = "plot" /\ calls' = calls + 1) =>
        LET before == gcf(figs).bars
            after == (IF last'.status = "ok" THEN displayed'[1] ELSE figs'[1]).bars
            n == Len(before)
            b == SubSeq(after, n + 1, Len(after))
        IN  /\ SubSeq(after, 1, n) = before
            /\ Len(b) = 6 /\ Len(stages) = 6 /\ Len(colors) = 6
            /\ Len(thresholds) = 7
            /\ b[1].left = 0
            /\ b[6].left + b[6].width = 120
            /\ \A i \in 1..6 : b[i].width > 0
            /\ \A i \in 1..5 : b[i].left + b[i].width = b[i + 1].left
            /\ \A i \in 1..6 : /\ b[i].left = thresholds[i]
                               /\ b[i].left + b[i].width = thresholds[i + 1]
            /\ [i \in 1..6 |-> b[i].left] = <<0, 15, 30, 45, 60, 90>>
            /\ [i \in 1..6 |-> b[i].y] =
                 << "Stage 5: Kidney Failure", "Stage 4: Severe Reduction",
                    "Stage 3b: Moderate-to-Severe Reduction",
                    "Stage 3a: Mild-to-Moderate Reduction",
                    "Stage 2: Mild Reduction",
                    "Stage 1: Normal or High Function" >>
            /\ [i \in 1..6 |-> b[i].color] =
                 <<"darkred", "red", "orange", "yellow", "lime", "green">> ]_vars

C7_Witness ==
  /\ last.fn = "plot"
  /\ last.status = "ok"
  /\ calls = 2
  /\ Len(displayed[1].bars) = 6
  /\ displayed[1].bars[6].color = "green"
  /\ displayed[1].bars[6].left + displayed[1].bars[6].width = 120

\* C8: in both functions race_factor is 1.159 exactly for the spellings of
\* "african-american" and 1.0 for every other race string; a race string
\* never makes a call raise, and an unrecognized one gives the result of
\* "non-african-american".
C8_RaceFactor ==
  (last.fn # "none" /\ last.locals.bound) =>
    LET a == last.args IN
    /\ a.race \in AfricanAmericanSpellings => last.locals.race_factor = 1159
    /\ a.race \notin AfricanAmericanSpellings => last.locals.race_factor = 1000
    /\ last.fn = "plot" => last.status = "ok"
    /\ last.fn = "calculate_egfr" =>
         LET n == calculate_egfr(a.creatinine, a.age, a.sex, StrNonAfricanAmerican)
         IN  /\ last.status = n.status
             /\ a.race \notin AfricanAmericanSpellings => Result(last) = Result(n)

C8_Witness ==
  /\ last.fn = "calculate_egfr"
  /\ last.args.race = StrUnknown
  /\ last.status = "ok"
  /\ last.value.kind = "pos"
  /\ last.locals.race_factor = 1000

\* C9: with creatinine, age and a valid sex fixed, calculate_egfr with race
\* "african-american" returns 1.159 times what it returns with race
\* "non-african-american" (and raises when, and as, that call raises).
C9_RaceRatio ==
  (/\ last.fn = "calculate_egfr"
   /\ last.args.race = StrAfricanAmerican
   /\ Lower(last.args.sex) \in {StrMale, StrFemale}) =>
    LET a == last.args
        n == calculate_egfr(a.creatinine, a.age, a.sex, StrNonAfricanAmerican)
    IN  /\ last.status = n.status
        /\ last.status = "ok" => last.value = FMul(n.value, FromMilli(1159))

C9_Witness ==
  /\ last.fn = "calculate_egfr"
  /\ last.args.race = StrAfricanAmerican
  /\ last.args.creatinine = 1450
  /\ last.args.age = 45
  /\ last.status = "ok"
  /\ last.value.kind = "pos"

\* The inputs C10 calls valid.
C10_ValidInputs ==
  /\ last.fn = "calculate_egfr"
  /\ last.args.creatinine > 0
  /\ last.args.age >= 0
  /\ last.args.sex \in {StrMale, StrFemale}
  /\ last.args.race \in {StrAfricanAmerican, StrNonAfricanAmerican}

\* C10 as stated: on valid inputs calculate_egfr returns a finite positive
\* real number.
C10_FinitePositive ==
  C10_ValidInputs => last.status = "ok" /\ last.value.kind = "pos"

\* C10 amended: on valid inputs calculate_egfr returns a finite real number
\* that is never negative; it is positive for every age up to 120, and 0.0
\* where 0.993 ** age underflows the double range.
C10_FiniteNonNegative ==
  C10_ValidInputs =>
    /\ last.status = "ok"
    /\ last.value.kind \in {"pos", "zero"}
    /\ last.args.age <= 120 => last.value.kind = "pos"

C10_Witness ==
  /\ C10_ValidInputs
  /\ last.args.age = 200000
  /\ last.status = "ok"
  /\ last.value.kind = "zero"

====
